---- MODULE Spec2Model ----
(***************************************************************************)
(* Model of the spatial analysis engine of the NH Biodiversity Explorer    *)
(* (src/spatial-analysis.js): aggregateByWatershed, scoreTrails,           *)
(* rankWatersheds, rankTrails and classifyDensity acting on the            *)
(* caller-owned watershed and trail features, and of the application       *)
(* controller that drives it (app.js: selectSpecies, clearSpecies,         *)
(* runAnalysis and the source toggles), whose handlers run to completion   *)
(* one at a time on the browser's event loop.                              *)
(*                                                                         *)
(* Turf.js is an external library.  Its primitives are modelled by their   *)
(* contract on a one-dimensional geometry: an observation sits on a        *)
(* position of a line, a watershed polygon covers a set of positions, a    *)
(* trail is a vertex on the line and distances are multiples of            *)
(* StepMeters.  A primitive handed a malformed geometry throws.            *)
(*                                                                         *)
(* Numbers: areas are integers in hectares (turf.area returns m^2),        *)
(* obsDensity is stored in hundredths (toFixed(2)) and scoreNorm in        *)
(* thousandths (toFixed(3)); the quotient is the exact rational, rounded   *)
(* half up as Number.prototype.toFixed does.                               *)
(***************************************************************************)
EXTENDS Integers, Sequences, FiniteSets, TLC

VARIABLES
    watersheds,     \* rawData.watersheds.features: geometry + properties
    trails,         \* rawData.trails.features: geometry + properties
    observations,   \* the observation FeatureCollection handed to the engine
    aggOutcome,     \* how the last aggregateByWatershed on these inputs ended
    hits,           \* per processed point, the watersheds it incremented
    aggRepeat,      \* the last aggregateByWatershed repeated one on the same inputs
    prevAgg,        \* watershed metrics when the last aggregateByWatershed began
    scoreOutcome,   \* how the last scoreTrails on these inputs ended
    bufferArg,      \* the bufferMeters argument of the last scoreTrails
    ranked,         \* value returned by the last rankWatersheds / rankTrails
    rankedOf,       \* which ranking `ranked` holds
    classBreaks,    \* CONFIG.analysis.densityBreaks when classifyDensity is called
    classCount,     \* the count argument of classifyDensity
    classIndex,     \* <<i>> once classifyDensity returned i, <<>> before
    currentSpecies,       \* app.js currentSpecies: a species or "null"
    currentObservations,  \* app.js currentObservations: <<>> (null) or <<fc>>
    toggleINat,           \* $toggleINat.checked
    toggleEbird,          \* $toggleEbird.checked
    requests,             \* the fetchAllObservations calls made so far
    analysisTimers,       \* runAnalysis callbacks scheduled and not yet fired
    loadingShown,         \* the loading overlay is visible
    resultsShown,         \* $resultsPanel.style.display = 'block'
    observationLayers,    \* observationsLayer and heatmapLayer exist
    callbackSaw,          \* what the last analysis callback found in
                          \* currentObservations: "none" yet, "data" or "null"
    analysedReq,          \* the request whose observations the last completed
                          \* analysis used, 0 for none
    normTrails,     \* trails as the counting loop of scoreTrails left them,
                    \* then as its normalisation pass left them
    normDone,       \* the normalisation pass has run on normTrails
    fetchArgs,      \* useINat / useEbird of the fetchAllObservations call and
                    \* whether CONFIG.api.eBird.apiKey is set
    inat,           \* fetchINatObservations: position, page, rows, answers
    ebird,          \* the eBird lookup and fetch: position, requests, features
    fetched,        \* the promise fetchAllObservations returned
    loaderVersion,  \* which data-loader.js runs: "multi" (16 trail files)
                    \* or "single" (one trails file, placeholders)
    files,          \* per requested file: the promise of its loadGeoJSON
    loaded,         \* the promise DataLoader.loadAll returned
    inputValue,     \* $input.value
    searchTimeout,  \* the timer handle of setupSearch (0: undefined)
    timers,         \* the pending timers of the page
    sinceInput,     \* ms since the last input event, up to debounceMs
    lastSearch,     \* the autocomplete request issued last
    inFlight,       \* autocomplete requests not answered yet
    suggestions     \* the suggestions box

engineVars == <<watersheds, trails, observations, aggOutcome, hits, aggRepeat,
                prevAgg, scoreOutcome, bufferArg, ranked, rankedOf>>

classVars == <<classBreaks, classCount, classIndex>>

appVars == <<currentSpecies, currentObservations, toggleINat, toggleEbird,
             requests, analysisTimers, loadingShown, resultsShown,
             observationLayers, callbackSaw, analysedReq>>

normVars == <<normTrails, normDone>>

\* The variables of the helper specifications, and for each of them the
\* variables its steps leave alone.
fetchVars == <<fetchArgs, inat, ebird, fetched>>

loaderVars == <<loaderVersion, files, loaded>>

searchVars ==
    <<inputValue, searchTimeout, timers, sinceInput, lastSearch, inFlight,
      suggestions>>

auxVars == <<normVars, fetchVars, loaderVars, searchVars>>

normOthers ==
    <<engineVars, classVars, appVars, fetchVars, loaderVars, searchVars>>

fetchOthers ==
    <<engineVars, classVars, appVars, normVars, loaderVars, searchVars>>

loaderOthers ==
    <<engineVars, classVars, appVars, normVars, fetchVars, searchVars>>

searchOthers ==
    <<engineVars, classVars, appVars, normVars, fetchVars, loaderVars>>

vars == <<engineVars, classVars, auxVars, appVars, auxVars>>

----------------------------------------------------------------------------
(* Bounds *)

MaxPoints == 2          \* observations per FeatureCollection
MaxFeatures == 2        \* watershed features + trail features
MaxObsCount == 101      \* largest count handed to classifyDensity
MaxRequests == 2        \* selections and toggle changes that start a fetch
MaxQuietCount == 10     \* largest obsNearby of the quieter of two trails
MaxEbirdRows == 2       \* rows of one eBird answer
MaxTrailFiles == 3      \* entries of TRAIL_FILES that are modelled
MaxFileFeatures == 1    \* features of one trail file
MaxInputLen == 2        \* characters of the search input
MaxInFlight == 2        \* autocomplete requests pending or unanswered
TicksPerDelay == 3      \* steps of the clock within the debounce delay

(* Program constants *)

trailBufferMeters == 100   \* CONFIG.analysis.trailBufferMeters
HaPerKm2 == 100            \* the 1e6 m^2 per km^2 of line 52, in hectares
DensityScale == 100        \* toFixed(2): obsDensity is kept in hundredths
ScoreScale == 1000         \* toFixed(3): scoreNorm is kept in thousandths
densityBreaks == <<0, 1, 5, 15, 40, 100>>   \* CONFIG.analysis.densityBreaks
debounceMs == 300          \* the delay of the autocomplete timer
perPage == 200             \* CONFIG.api.iNaturalist.perPage
maxPages == 5              \* CONFIG.api.iNaturalist.maxPages
densityColors ==                            \* CONFIG.densityColors
    <<"#2a3323", "#3d5a1e", "#6b8e23", "#9acd32", "#f0b429", "#e85d5d">>

(* Geometry of the modelled world *)

\* Neighbouring line positions lie half a default buffer apart, so that a
\* point can sit inside, exactly on and outside the buffer of a trail.
StepMeters == trailBufferMeters \div 2
PointPositions == 0..1     \* where a well-formed observation can sit

Abs(x) == IF x < 0 THEN -x ELSE x

\* Observation features: well-formed ones carry a position; a malformed one
\* has coordinates turf.point rejects (missing, too short, not numbers).
ObsPoints ==
    {[valid |-> TRUE, pos |-> p] : p \in PointPositions}
        \cup {[valid |-> FALSE, pos |-> 0]}

ObsCollections == UNION {[1..n -> ObsPoints] : n \in 0..MaxPoints}

\* Watershed geometries: the positions the polygon covers, its area in
\* hectares and whether the polygon is malformed.  A degenerate ring has
\* area 0 yet holds the points on its boundary.
WsGeometries ==
    { [cells |-> {0},    areaHa |-> 300,  bad |-> FALSE],
      [cells |-> {0, 1}, areaHa |-> 800,  bad |-> FALSE],
      [cells |-> {1},    areaHa |-> 0,    bad |-> FALSE],
      [cells |-> {0, 1}, areaHa |-> 0,    bad |-> TRUE] }

\* Trail geometries: the position of the trail on the line.
TrailGeometries ==
    { [pos |-> 0, bad |-> FALSE],
      [pos |-> 2, bad |-> FALSE],
      [pos |-> 0, bad |-> TRUE] }

\* bufferMeters arguments; 0 stands for an omitted (falsy) argument.
BufferArgs == {0, trailBufferMeters \div 2, -trailBufferMeters}

----------------------------------------------------------------------------
(* Turf.js primitives *)

\* turf.point(coord): throws on malformed coordinates.
TurfPointThrows(pt) == ~pt.valid

\* turf.booleanPointInPolygon(turfPt, ws): "true", "false" or "throw".
booleanPointInPolygon(pt, ws) ==
    IF ws.geom.bad THEN "throw"
    ELSE IF pt.pos \in ws.geom.cells THEN "true" ELSE "false"

\* turf.area(ws) throws on a malformed polygon.
TurfAreaThrows(ws) == ws.geom.bad

\* turf.area(ws), in hectares.
TurfArea(ws) == ws.geom.areaHa

\* turf.nearestPointOnLine(trail, turfPt) throws on a malformed line.
NearestThrows(trail) == trail.geom.bad

\* turf.nearestPointOnLine(trail, turfPt).properties.dist, in metres.
NearestDist(trail, pt) == Abs(pt.pos - trail.geom.pos) * StepMeters

\* +(num / den).toFixed(digits) for num >= 0, den > 0, in units of 1/scale:
\* the nearest multiple of 1/scale, the larger one on a tie.
RoundedQuotient(num, den, scale) == (2 * num * scale + den) \div (2 * den)

----------------------------------------------------------------------------
(* aggregateByWatershed *)

\* Variant: the counts of the previous run are kept.
ResetWatershedKept(ws) == ws

\* Lines 27-30: reset of one feature.
ResetWatershed(ws) == [ws EXCEPT !.obsCount = 0, !.obsDensity = 0]

\* Variant: the loop goes on after a match (no `break`).
MatchStepNoBreak(st, pt, j) ==
    IF booleanPointInPolygon(pt, st.ws[j]) = "true"
    THEN [ws   |-> [st.ws EXCEPT ![j].obsCount = @ + 1],
          hit  |-> Append(st.hit, j),
          done |-> FALSE]
    ELSE st

\* Lines 37-46: one iteration of the for-of loop for point pt and the j-th
\* watershed.  st.done records that the loop was left by `break`.
MatchStep(st, pt, j) ==
    IF st.done THEN st
    ELSE IF booleanPointInPolygon(pt, st.ws[j]) = "true"
         THEN [ws   |-> [st.ws EXCEPT ![j].obsCount = @ + 1],
               hit  |-> Append(st.hit, j),
               done |-> TRUE]
         ELSE st        \* "false", or the throw caught on line 43

RECURSIVE ScanWatersheds(_, _, _)
ScanWatersheds(st, pt, j) ==
    IF j > Len(st.ws) THEN st
    ELSE ScanWatersheds(MatchStep(st, pt, j), pt, j + 1)

\* Variant: the scan starts at the second watershed.
CountPointSkipFirst(acc, pt) ==
    IF TurfPointThrows(pt) THEN [acc EXCEPT !.threw = TRUE]
    ELSE LET r == ScanWatersheds([ws |-> acc.ws, hit |-> <<>>, done |-> FALSE],
                                 pt, 2)
         IN  [ws |-> r.ws, hits |-> Append(acc.hits, r.hit), threw |-> FALSE]

\* Lines 33-47: the body of points.forEach for one point.  turf.point is
\* called outside the try block, so its exception leaves the function.
CountPoint(acc, pt) ==
    IF TurfPointThrows(pt) THEN [acc EXCEPT !.threw = TRUE]
    ELSE LET r == ScanWatersheds([ws |-> acc.ws, hit |-> <<>>, done |-> FALSE],
                                 pt, 1)
         IN  [ws |-> r.ws, hits |-> Append(acc.hits, r.hit), threw |-> FALSE]

RECURSIVE CountPoints(_, _, _)
CountPoints(acc, pts, i) ==
    IF i > Len(pts) \/ acc.threw THEN acc
    ELSE CountPoints(CountPoint(acc, pts[i]), pts, i + 1)

\* Variant: the quotient is cut off after 2 decimals instead of rounded.
DensityTruncated(count, areaHa) ==
    IF areaHa > 0
    THEN (count * HaPerKm2 * DensityScale) \div areaHa
    ELSE 0

\* Variant: without a usable area the count itself is stored.
DensityNoGuard(count, areaHa) ==
    IF areaHa > 0
    THEN RoundedQuotient(count * HaPerKm2, areaHa, DensityScale)
    ELSE count * DensityScale

\* Lines 52-55: the density stored for a count and an area.
Density(count, areaHa) ==
    IF areaHa > 0
    THEN RoundedQuotient(count * HaPerKm2, areaHa, DensityScale)
    ELSE 0

\* Lines 50-59: the density pass for one feature.
WithDensity(ws) ==
    IF TurfAreaThrows(ws) THEN [ws EXCEPT !.obsDensity = 0]
    ELSE [ws EXCEPT !.obsDensity = Density(ws.obsCount, TurfArea(ws))]

\* Lines 23-62: the whole call; .threw tells that an exception left it.
AggregateResult(wss, pts) ==
    LET reset   == [i \in DOMAIN wss |-> ResetWatershed(wss[i])]
        counted == CountPoints([ws |-> reset, hits |-> <<>>, threw |-> FALSE],
                               pts, 1)
    IN  IF counted.threw THEN counted
        ELSE [counted EXCEPT
                !.ws = [i \in DOMAIN counted.ws |-> WithDensity(counted.ws[i])]]

WsMetrics(wss) ==
    [i \in DOMAIN wss |-> <<wss[i].obsCount, wss[i].obsDensity>>]

\* Variant: the reset pass also clears the trail metrics.
aggregateByWatershedSharedReset ==
    LET r == AggregateResult(watersheds, observations)
    IN  /\ watersheds' = r.ws
        /\ trails' = [j \in DOMAIN trails |->
                         [trails[j] EXCEPT !.obsNearby = 0, !.scoreNorm = 0]]
        /\ hits' = r.hits
        /\ aggOutcome' = IF r.threw THEN "threw" ELSE "ok"
        /\ aggRepeat' = (aggOutcome # "none")
        /\ prevAgg' = WsMetrics(watersheds)
        /\ rankedOf' = "none"
        /\ ranked' = <<>>
        /\ UNCHANGED <<observations, scoreOutcome, bufferArg>>
        /\ UNCHANGED <<classBreaks, classCount, classIndex, appVars, auxVars>>

aggregateByWatershed ==
    LET r == AggregateResult(watersheds, observations)
    IN  /\ watersheds' = r.ws
        /\ hits' = r.hits
        /\ aggOutcome' = IF r.threw THEN "threw" ELSE "ok"
        /\ aggRepeat' = (aggOutcome # "none")
        /\ prevAgg' = WsMetrics(watersheds)
        /\ rankedOf' = "none"
        /\ ranked' = <<>>
        /\ UNCHANGED <<trails, observations, scoreOutcome, bufferArg>>
        /\ UNCHANGED <<classVars, appVars, auxVars>>

----------------------------------------------------------------------------
(* scoreTrails *)

\* Line 98: bufferMeters || CONFIG.analysis.trailBufferMeters, in metres.
EffectiveBuffer(bufferMeters) ==
    IF bufferMeters = 0 THEN trailBufferMeters ELSE bufferMeters

\* Lines 102-105: reset of one feature.
ResetTrail(t) == [t EXCEPT !.obsNearby = 0, !.scoreNorm = 0]

\* Variant: a point exactly at the buffer distance is not near.
NearStepStrict(t, pt, bufferM) ==
    IF NearestThrows(t) THEN t
    ELSE IF NearestDist(t, pt) < bufferM
         THEN [t EXCEPT !.obsNearby = @ + 1]
         ELSE t

\* Lines 113-121: the body of trails.forEach for point pt and one trail.
NearStep(t, pt, bufferM) ==
    IF NearestThrows(t) THEN t          \* caught on line 119
    ELSE IF NearestDist(t, pt) <= bufferM
         THEN [t EXCEPT !.obsNearby = @ + 1]
         ELSE t

\* Lines 108-123: the body of points.forEach for one point.  As in
\* aggregateByWatershed, turf.point is called outside the try block.
ScorePoint(acc, pt, bufferM) ==
    IF TurfPointThrows(pt) THEN [acc EXCEPT !.threw = TRUE]
    ELSE [acc EXCEPT
            !.ts = [j \in DOMAIN acc.ts |-> NearStep(acc.ts[j], pt, bufferM)]]

RECURSIVE ScorePoints(_, _, _, _)
ScorePoints(acc, pts, i, bufferM) ==
    IF i > Len(pts) \/ acc.threw THEN acc
    ELSE ScorePoints(ScorePoint(acc, pts[i], bufferM), pts, i + 1, bufferM)

\* Variant: the maximum is taken over the first trail only.
MaxNearbyOfFirst(ts, j) ==
    IF ts = <<>> \/ ts[1].obsNearby < 1 THEN 1 ELSE ts[1].obsNearby

\* Variant: the maximum is taken before the counting (always 1).
MaxNearbyBeforeCount(ts, j) == 1

\* Line 126: Math.max(1, ...obsNearby), folded from index j on.
RECURSIVE MaxNearby(_, _)
MaxNearby(ts, j) ==
    IF j > Len(ts) THEN 1
    ELSE LET rest == MaxNearby(ts, j + 1)
         IN  IF ts[j].obsNearby > rest THEN ts[j].obsNearby ELSE rest

\* Line 128: the normalised score stored for a count.
Normalised(obsNearby, maxObs) == RoundedQuotient(obsNearby, maxObs, ScoreScale)

\* Lines 97-132: the whole call.
ScoreResult(ts, pts, bufferMeters) ==
    LET reset   == [j \in DOMAIN ts |-> ResetTrail(ts[j])]
        counted == ScorePoints([ts |-> reset, threw |-> FALSE], pts, 1,
                               EffectiveBuffer(bufferMeters))
        maxObs  == MaxNearby(counted.ts, 1)
    IN  IF counted.threw THEN counted
        ELSE [counted EXCEPT
                !.ts = [j \in DOMAIN counted.ts |->
                          [counted.ts[j] EXCEPT
                             !.scoreNorm = Normalised(counted.ts[j].obsNearby,
                                                      maxObs)]]]

scoreTrails ==
    \E bufferMeters \in BufferArgs :
        LET r == ScoreResult(trails, observations, bufferMeters)
        IN  /\ trails' = r.ts
            /\ scoreOutcome' = IF r.threw THEN "threw" ELSE "ok"
            /\ bufferArg' = bufferMeters
            /\ rankedOf' = "none"
            /\ ranked' = <<>>
            /\ UNCHANGED <<watersheds, observations, aggOutcome, hits, aggRepeat,
                           prevAgg>>
            /\ UNCHANGED <<classVars, appVars, auxVars>>

----------------------------------------------------------------------------
(* rankWatersheds / rankTrails *)

\* f.properties[field] for the two ranking keys.
Prop(f, field) == IF field = "obsCount" THEN f.obsCount ELSE f.obsNearby

\* Variant: the filter keeps every feature with a count >= 0.
FilterNonNegative(fs, field, i) ==
    IF i > Len(fs) THEN <<>>
    ELSE [k \in 1..(Len(fs) - i + 1) |-> fs[i + k - 1]]

\* Array.prototype.filter: the elements with properties[field] > 0, in order.
RECURSIVE Filter(_, _, _)
Filter(fs, field, i) ==
    IF i > Len(fs) THEN <<>>
    ELSE IF Prop(fs[i], field) > 0
         THEN <<fs[i]>> \o Filter(fs, field, i + 1)
         ELSE Filter(fs, field, i + 1)

\* Variant: x is placed in front of the elements with an equal key.
RECURSIVE InsertDescUnstable(_, _, _)
InsertDescUnstable(sorted, x, field) ==
    IF sorted = <<>> THEN <<x>>
    ELSE IF Prop(Head(sorted), field) > Prop(x, field)
         THEN <<Head(sorted)>> \o InsertDescUnstable(Tail(sorted), x, field)
         ELSE <<x>> \o sorted

\* Place x behind every element whose key is >= its own (stable).
RECURSIVE InsertDesc(_, _, _)
InsertDesc(sorted, x, field) ==
    IF sorted = <<>> THEN <<x>>
    ELSE IF Prop(Head(sorted), field) >= Prop(x, field)
         THEN <<Head(sorted)>> \o InsertDesc(Tail(sorted), x, field)
         ELSE <<x>> \o sorted

\* Array.prototype.sort with comparator (a, b) => b[field] - a[field]: a
\* stable descending sort, here by insertion of fs[1..n] in order.
RECURSIVE SortDesc(_, _, _)
SortDesc(fs, field, n) ==
    IF n = 0 THEN <<>>
    ELSE InsertDesc(SortDesc(fs, field, n - 1), fs[n], field)

\* Lines 156-160.
RankWatersheds(wss) ==
    LET kept == Filter(wss, "obsCount", 1)
    IN  SortDesc(kept, "obsCount", Len(kept))

\* Variant: the filtered copy is returned without sorting it.
RankTrailsUnsorted(ts) == Filter(ts, "obsNearby", 1)

\* Lines 165-169.
RankTrails(ts) ==
    LET kept == Filter(ts, "obsNearby", 1)
    IN  SortDesc(kept, "obsNearby", Len(kept))

\* Variant: watersheds.features itself is sorted, not a copy of it.
rankWatershedsInPlace ==
    /\ ranked' = RankWatersheds(watersheds)
    /\ rankedOf' = "watersheds"
    /\ watersheds' = SortDesc(watersheds, "obsCount", Len(watersheds))
    /\ UNCHANGED <<trails, observations, aggOutcome, hits, aggRepeat,
                   prevAgg, scoreOutcome, bufferArg>>
    /\ UNCHANGED <<classBreaks, classCount, classIndex, appVars, auxVars>>

rankWatersheds ==
    /\ ranked' = RankWatersheds(watersheds)
    /\ rankedOf' = "watersheds"
    /\ UNCHANGED <<watersheds, trails, observations, aggOutcome, hits, aggRepeat,
                   prevAgg, scoreOutcome, bufferArg>>
    /\ UNCHANGED <<classVars, appVars, auxVars>>

rankTrails ==
    /\ ranked' = RankTrails(trails)
    /\ rankedOf' = "trails"
    /\ UNCHANGED <<watersheds, trails, observations, aggOutcome, hits, aggRepeat,
                   prevAgg, scoreOutcome, bufferArg>>
    /\ UNCHANGED <<classVars, appVars, auxVars>>

----------------------------------------------------------------------------
(* classifyDensity *)

\* Variant: a count equal to a breakpoint stays in the class below.
ReachesBreakStrict(cnt, b) == cnt > b

\* Line 71: count >= breaks[i].
ReachesBreak(cnt, b) == cnt >= b

\* Lines 70-72: the loop from index i (0-based, as in the code) downwards.
RECURSIVE ClassifyFrom(_, _, _)
ClassifyFrom(breaks, cnt, i) ==
    IF i < 0 THEN 0                                   \* line 73
    ELSE IF ReachesBreak(cnt, breaks[i + 1]) THEN i
         ELSE ClassifyFrom(breaks, cnt, i - 1)

\* Variant: below the first breakpoint the loop index is returned.
ClassifyDensityNoFloor(breaks, cnt) ==
    IF cnt < breaks[1] THEN -1 ELSE ClassifyFrom(breaks, cnt, Len(breaks) - 1)

\* Lines 68-74.
ClassifyDensity(breaks, cnt) == ClassifyFrom(breaks, cnt, Len(breaks) - 1)

\* Breakpoint lists the configuration can hold: the default, one whose
\* first breakpoint is above 0 and one that is not ascending.
BreakLists == {densityBreaks, <<1, 5, 15>>, <<0, 15, 5>>}

\* Counts handed to the classifier; it is also called with a raw number.
ClassCounts == (-2)..MaxObsCount

\* createLegend, map-styles.js lines 160-163: the count lies in the range
\* printed on row i (0-based) of the legend: breaks[i]..breaks[i+1]-1, and
\* breaks[i] and above on the last row.
InLegendRow(breaks, i, cnt) ==
    /\ cnt >= breaks[i + 1]
    /\ i < Len(breaks) - 1 => cnt <= breaks[i + 2] - 1

classifyDensity ==
    /\ classIndex' = <<ClassifyDensity(classBreaks, classCount)>>
    /\ UNCHANGED <<classBreaks, classCount>>
    /\ UNCHANGED <<engineVars, appVars, auxVars>>

----------------------------------------------------------------------------
(* Initial state and inputs *)

\* `id` is the identity of the feature object (its index in the file).
NewWatershed(i, g) == [id |-> i, geom |-> g, obsCount |-> 0, obsDensity |-> 0]
NewTrail(i, g) == [id |-> i, geom |-> g, obsNearby |-> 0, scoreNorm |-> 0]

\* Observation sets of earlier analysis runs on the same base layers.
EarlierObservations ==
    { <<>>,
      <<[valid |-> TRUE, pos |-> 0], [valid |-> TRUE, pos |-> 1],
        [valid |-> TRUE, pos |-> 1]>> }

\* Lines 340-348 of app.js: the controller before any selection.
AppIdle ==
    /\ currentSpecies = "null"
    /\ currentObservations = <<>>
    /\ toggleINat = TRUE
    /\ toggleEbird = TRUE
    /\ requests = <<>>
    /\ analysisTimers = 0
    /\ loadingShown = FALSE
    /\ resultsShown = FALSE
    /\ observationLayers = FALSE
    /\ callbackSaw = "none"
    /\ analysedReq = 0

\* The engine, the classifier and the helper specifications before any call.
EngineIdle ==
    /\ watersheds = <<>>
    /\ trails = <<>>
    /\ observations = <<>>
    /\ aggOutcome = "none"
    /\ hits = <<>>
    /\ aggRepeat = FALSE
    /\ prevAgg = <<>>
    /\ scoreOutcome = "none"
    /\ bufferArg = 0
    /\ ranked = <<>>
    /\ rankedOf = "none"

ClassIdle ==
    /\ classBreaks = densityBreaks
    /\ classCount = 0
    /\ classIndex = <<>>

NormIdle ==
    /\ normTrails = <<>>
    /\ normDone = FALSE

FetchIdle ==
    /\ fetchArgs = [useINat |-> TRUE, useEbird |-> TRUE, apiKey |-> FALSE]
    /\ inat = [pc |-> "idle", pages |-> <<>>, answers |-> <<>>, rows |-> 0,
               features |-> 0]
    /\ ebird = [pc |-> "idle", requests |-> 0, features |-> 0]
    /\ fetched = [pc |-> "idle", features |-> <<>>]

NullGeoJSON == [null |-> TRUE, origin |-> "none", features |-> <<>>]

LoaderIdle ==
    /\ loaderVersion = "multi"
    /\ files = <<>>
    /\ loaded = [pc |-> "idle", boundary |-> NullGeoJSON,
                 watersheds |-> NullGeoJSON, trails |-> NullGeoJSON]

NoSearch == [issued |-> FALSE, q |-> <<>>, via |-> "none", quiet |-> 0]

SearchIdle ==
    /\ inputValue = <<>>
    /\ searchTimeout = 0
    /\ timers = {}
    /\ sinceInput = debounceMs
    /\ lastSearch = NoSearch
    /\ inFlight = 0
    /\ suggestions = [hidden |-> TRUE, items |-> "none"]

AuxIdle == NormIdle /\ FetchIdle /\ LoaderIdle /\ SearchIdle

\* The base layers are loaded once and persist across analysis runs: when a
\* new observation set arrives, their metrics are those an earlier run (on
\* another observation set, with the default buffer) left behind.
Init ==
    /\ \E nw \in 0..MaxFeatures, earlier \in EarlierObservations :
        \E nt \in 0..(MaxFeatures - nw) :
            /\ watersheds \in
                 {AggregateResult([i \in 1..nw |-> NewWatershed(i, f[i])],
                                  earlier).ws : f \in [1..nw -> WsGeometries]}
            /\ trails \in
                 {ScoreResult([i \in 1..nt |-> NewTrail(i, f[i])],
                              earlier, 0).ts : f \in [1..nt -> TrailGeometries]}
    /\ observations \in ObsCollections
    /\ aggOutcome = "none"
    /\ hits = <<>>
    /\ aggRepeat = FALSE
    /\ prevAgg = <<>>
    /\ scoreOutcome = "none"
    /\ bufferArg = 0
    /\ ranked = <<>>
    /\ rankedOf = "none"
    /\ classBreaks = densityBreaks
    /\ classCount = 0
    /\ classIndex = <<>>
    /\ AppIdle
    /\ AuxIdle

Next ==
    \/ aggregateByWatershed
    \/ scoreTrails
    \/ rankWatersheds
    \/ rankTrails

Spec == Init /\ [][Next]_vars

\* The classifier is a pure function of the configured breakpoints and its
\* argument: its specification draws both and applies it.
InitClassify ==
    /\ classBreaks \in BreakLists
    /\ classCount \in ClassCounts
    /\ classIndex = <<>>
    /\ watersheds = <<>>
    /\ trails = <<>>
    /\ observations = <<>>
    /\ aggOutcome = "none"
    /\ hits = <<>>
    /\ aggRepeat = FALSE
    /\ prevAgg = <<>>
    /\ scoreOutcome = "none"
    /\ bufferArg = 0
    /\ ranked = <<>>
    /\ rankedOf = "none"
    /\ AppIdle
    /\ AuxIdle

NextClassify == classifyDensity

SpecClassify == InitClassify /\ [][NextClassify]_vars

----------------------------------------------------------------------------
(* The application controller (app.js, api-client.js) *)

\* Species the user can pick from the autocomplete list.
Species == {"A", "B"}

\* currentObservations = null.
Null == <<>>

\* rawData as DataLoader.loadAll left it: two watersheds and two trails.
AppWatersheds ==
    << NewWatershed(1, [cells |-> {0}, areaHa |-> 300, bad |-> FALSE]),
       NewWatershed(2, [cells |-> {0, 1}, areaHa |-> 800, bad |-> FALSE]) >>

AppTrails ==
    << NewTrail(1, [pos |-> 0, bad |-> FALSE]),
       NewTrail(2, [pos |-> 2, bad |-> FALSE]) >>

\* What the observation services can answer: nothing, well-formed points,
\* or rows among which one has no usable coordinates.
FetchedFeatures ==
    { <<>>,
      <<[valid |-> TRUE, pos |-> 0], [valid |-> TRUE, pos |-> 1]>>,
      <<[valid |-> FALSE, pos |-> 0], [valid |-> TRUE, pos |-> 0]>> }

\* runAnalysis, lines 539-553, on the value just stored in
\* currentObservations: without features it hides everything, otherwise it
\* shows the overlay and schedules the analysis callback.
RunAnalysisOn(features) ==
    IF features = <<>>
    THEN /\ loadingShown' = FALSE
         /\ observationLayers' = FALSE
         /\ resultsShown' = FALSE
         /\ UNCHANGED analysisTimers
    ELSE /\ loadingShown' = TRUE
         /\ analysisTimers' = analysisTimers + 1
         /\ UNCHANGED <<observationLayers, resultsShown>>

\* selectSpecies(species), lines 494-526, up to its await, with the value
\* useINat of $toggleINat.checked.  Without an eBird key (CONFIG.api.eBird
\* .apiKey is '') only the iNaturalist source reaches the network; with it
\* switched off fetchAllObservations resolves with no features before any
\* other event is handled, and the handler goes on into runAnalysis.
SelectSpeciesWith(species, useINat) ==
    /\ Len(requests) < MaxRequests
    /\ currentSpecies' = species
    /\ IF useINat
       THEN /\ requests' = Append(requests,
                                  [species |-> species, pending |-> TRUE])
            /\ loadingShown' = TRUE
            /\ UNCHANGED <<currentObservations, analysisTimers,
                           observationLayers, resultsShown>>
       ELSE /\ requests' = Append(requests,
                                  [species |-> species, pending |-> FALSE])
            /\ currentObservations' =
                  <<[req |-> Len(requests) + 1, features |-> <<>>]>>
            /\ RunAnalysisOn(<<>>)
    /\ UNCHANGED <<engineVars, classVars, auxVars, callbackSaw, analysedReq>>

\* A click on a suggestion, lines 483-489.
selectSpecies ==
    \E species \in Species :
        /\ SelectSpeciesWith(species, toggleINat)
        /\ UNCHANGED <<toggleINat, toggleEbird>>

\* Line 772: the change handler of the iNaturalist toggle.
changeToggleINat ==
    /\ toggleINat' = ~toggleINat
    /\ UNCHANGED toggleEbird
    /\ IF currentSpecies # "null"
       THEN SelectSpeciesWith(currentSpecies, ~toggleINat)
       ELSE UNCHANGED <<engineVars, classVars, auxVars, currentSpecies,
                        currentObservations, requests, analysisTimers,
                        loadingShown, resultsShown, observationLayers,
                        callbackSaw, analysedReq>>

\* Line 773: the change handler of the eBird toggle.
changeToggleEbird ==
    /\ toggleEbird' = ~toggleEbird
    /\ UNCHANGED toggleINat
    /\ IF currentSpecies # "null"
       THEN SelectSpeciesWith(currentSpecies, toggleINat)
       ELSE UNCHANGED <<engineVars, classVars, auxVars, currentSpecies,
                        currentObservations, requests, analysisTimers,
                        loadingShown, resultsShown, observationLayers,
                        callbackSaw, analysedReq>>

\* clearSpecies, lines 528-536; its button exists while a species is active.
clearSpecies ==
    /\ currentSpecies # "null"
    /\ currentSpecies' = "null"
    /\ currentObservations' = Null
    /\ observationLayers' = FALSE
    /\ resultsShown' = FALSE
    /\ UNCHANGED <<engineVars, classVars, auxVars, toggleINat, toggleEbird, requests,
                   analysisTimers, loadingShown, callbackSaw, analysedReq>>

\* Lines 515-521: a pending fetchAllObservations resolves, in any order
\* among the pending ones, and selectSpecies resumes after its await.
fetchCompletes ==
    \E i \in DOMAIN requests, features \in FetchedFeatures :
        /\ requests[i].pending
        /\ requests' = [requests EXCEPT ![i].pending = FALSE]
        /\ currentObservations' = <<[req |-> i, features |-> features]>>
        /\ RunAnalysisOn(features)
        /\ UNCHANGED <<engineVars, classVars, auxVars, currentSpecies, toggleINat,
                       toggleEbird, callbackSaw, analysedReq>>

\* Lines 553-575: the callback runAnalysis scheduled fires.  It reads
\* currentObservations when it runs; an exception of the engine leaves it.
analysisCallback ==
    /\ analysisTimers > 0
    /\ analysisTimers' = analysisTimers - 1
    /\ UNCHANGED <<classVars, auxVars, currentSpecies, currentObservations, toggleINat,
                   toggleEbird, requests, aggRepeat, prevAgg, ranked, rankedOf>>
    /\ IF currentObservations = Null
       THEN \* observations.features on line 24 throws a TypeError
            /\ callbackSaw' = "null"
            /\ UNCHANGED <<watersheds, trails, observations, aggOutcome, hits,
                           scoreOutcome, bufferArg, loadingShown,
                           resultsShown, observationLayers, analysedReq>>
       ELSE LET fc  == currentObservations[1]
                agg == AggregateResult(watersheds, fc.features)
                sc  == ScoreResult(trails, fc.features, trailBufferMeters)
            IN  /\ callbackSaw' = "data"
                /\ observations' = fc.features
                /\ watersheds' = agg.ws
                /\ hits' = agg.hits
                /\ aggOutcome' = IF agg.threw THEN "threw" ELSE "ok"
                /\ IF agg.threw
                   THEN UNCHANGED <<trails, scoreOutcome, bufferArg,
                                    loadingShown, resultsShown,
                                    observationLayers, analysedReq>>
                   ELSE /\ trails' = sc.ts
                        /\ scoreOutcome' = IF sc.threw THEN "threw" ELSE "ok"
                        /\ bufferArg' = trailBufferMeters
                        /\ observationLayers' = TRUE
                        /\ resultsShown' = TRUE
                        /\ loadingShown' = FALSE
                        /\ analysedReq' = fc.req

InitApp ==
    /\ watersheds = AppWatersheds
    /\ trails = AppTrails
    /\ observations = <<>>
    /\ aggOutcome = "none"
    /\ hits = <<>>
    /\ aggRepeat = FALSE
    /\ prevAgg = <<>>
    /\ scoreOutcome = "none"
    /\ bufferArg = 0
    /\ ranked = <<>>
    /\ rankedOf = "none"
    /\ classBreaks = densityBreaks
    /\ classCount = 0
    /\ classIndex = <<>>
    /\ AppIdle
    /\ AuxIdle

NextApp ==
    \/ selectSpecies
    \/ changeToggleINat
    \/ changeToggleEbird
    \/ clearSpecies
    \/ fetchCompletes
    \/ analysisCallback

SpecApp == InitApp /\ [][NextApp]_vars

----------------------------------------------------------------------------
(* api-client.js: fetchAllObservations and the two sources *)

\* What a request can end in: a failure (fetch or res.json() throws, or
\* !res.ok where the code tests it), or a body with that many rows.
Failure == [ok |-> FALSE, rows |-> 0]

Rows(n) == [ok |-> TRUE, rows |-> n]

\* The answers to one iNaturalist page request (an HTTP error body without
\* `results` counts as 0 rows); the API returns at most per_page rows.
PageAnswers == {Failure} \cup {Rows(n) : n \in {0, 1, perPage - 1, perPage}}

EbirdAnswers == {Failure} \cup {Rows(n) : n \in 0..MaxEbirdRows}

\* The rows of the answers: what allResults holds; a failed page adds none.
RECURSIVE RowsOf(_, _)
RowsOf(answers, k) ==
    IF k > Len(answers) THEN 0
    ELSE answers[k].rows + RowsOf(answers, k + 1)

\* Variant: the loop goes on after a page with fewer than perPage rows.
PagingEndsNoShortBreak(answer, page) == ~answer.ok \/ page >= maxPages

\* Lines 846, 863-868: the for loop ends after this answer to page `page`.
PagingEnds(answer, page) ==
    \/ ~answer.ok                      \* catch: break
    \/ answer.rows < perPage           \* fewer than a full page: break
    \/ page >= maxPages                \* page++ fails page <= maxPages

\* Lines 872-897: the conversion of allResults.  Rows without geojson are
\* filtered out; a row whose geojson has no coordinates makes the map
\* callback throw, outside any try.
RowKinds == {"located", "oneWithoutGeojson", "oneWithoutCoordinates"}

Converted(st, kind) ==
    IF st.rows > 0 /\ kind = "oneWithoutCoordinates"
    THEN [st EXCEPT !.pc = "rejected"]
    ELSE [st EXCEPT !.pc = "done",
                    !.features = IF st.rows > 0 /\ kind = "oneWithoutGeojson"
                                 THEN st.rows - 1 ELSE st.rows]

\* fetchINatObservations, lines 840-898, from one answer to the next await
\* or to its return.
INatAfter(st, answer, kind) ==
    LET page == Len(st.pages)
        got  == [st EXCEPT !.answers = Append(@, answer),
                           !.rows = @ + answer.rows]
    IN  IF PagingEnds(answer, page)
        THEN Converted(got, kind)
        ELSE [got EXCEPT !.pages = Append(@, page + 1)]

\* Variant: a failed eBird request is not caught.
EbirdAfterFetchUncaught(st, answer) ==
    IF ~answer.ok THEN [st EXCEPT !.pc = "rejected"]
    ELSE [st EXCEPT !.pc = "done", !.features = answer.rows]

\* fetchEBirdObservations, lines 911-952, after its request: the rows, or no
\* feature when the request failed or answered with an HTTP error.
EbirdAfterFetch(st, answer) ==
    IF ~answer.ok THEN [st EXCEPT !.pc = "done", !.features = 0]
    ELSE [st EXCEPT !.pc = "done", !.features = answer.rows]

\* Lines 991-1004: the call up to its first await.  The first page is
\* requested; without an API key lookupEBirdSpeciesCode returns null at
\* once (line 960) and an empty collection stands in for eBird.
fetchAllObservations ==
    /\ fetched.pc = "idle"
    /\ fetched' = [fetched EXCEPT !.pc = "pending"]
    /\ inat' = IF fetchArgs.useINat
               THEN [inat EXCEPT !.pc = "paging", !.pages = <<1>>]
               ELSE inat
    /\ ebird' = IF ~fetchArgs.useEbird THEN ebird
                ELSE IF fetchArgs.apiKey
                     THEN [ebird EXCEPT !.pc = "lookup", !.requests = 1]
                     ELSE [ebird EXCEPT !.pc = "done"]
    /\ UNCHANGED <<fetchArgs, fetchOthers>>

\* Lines 859-868: the awaited page request settles.
inatPageAnswers ==
    \E answer \in PageAnswers, kind \in RowKinds :
        /\ inat.pc = "paging"
        /\ inat' = INatAfter(inat, answer, kind)
        /\ UNCHANGED <<fetchArgs, ebird, fetched, fetchOthers>>

\* lookupEBirdSpeciesCode, lines 958-977, after its request: a species
\* code, or null (no match, HTTP error, failed request).
ebirdLookupAnswers ==
    \E found \in BOOLEAN :
        /\ ebird.pc = "lookup"
        /\ ebird' = IF found
                    THEN [ebird EXCEPT !.pc = "fetch", !.requests = @ + 1]
                    ELSE [ebird EXCEPT !.pc = "done"]
        /\ UNCHANGED <<fetchArgs, inat, fetched, fetchOthers>>

ebirdFetchAnswers ==
    \E answer \in EbirdAnswers :
        /\ ebird.pc = "fetch"
        /\ ebird' = EbirdAfterFetch(ebird, answer)
        /\ UNCHANGED <<fetchArgs, inat, fetched, fetchOthers>>

\* The features of the sources that were asked, iNaturalist first.
Merged ==
    (IF fetchArgs.useINat
     THEN <<[source |-> "iNaturalist", count |-> inat.features]>> ELSE <<>>)
    \o (IF fetchArgs.useEbird
        THEN <<[source |-> "eBird", count |-> ebird.features]>> ELSE <<>>)

\* Lines 1006-1013: Promise.all settles (it is reached once the lookup has
\* answered) and fetchAllObservations returns or throws.
promiseAllSettles ==
    /\ fetched.pc = "pending"
    /\ ebird.pc \notin {"lookup"}
    /\ IF inat.pc = "rejected" \/ ebird.pc = "rejected"
       THEN fetched' = [fetched EXCEPT !.pc = "rejected"]
       ELSE /\ inat.pc \in {"idle", "done"}
            /\ ebird.pc \in {"idle", "done"}
            /\ fetched' = [pc |-> "resolved", features |-> Merged]
    /\ UNCHANGED <<fetchArgs, inat, ebird, fetchOthers>>

InitFetch ==
    /\ fetchArgs \in [useINat : BOOLEAN, useEbird : BOOLEAN, apiKey : BOOLEAN]
    /\ inat = [pc |-> "idle", pages |-> <<>>, answers |-> <<>>, rows |-> 0,
               features |-> 0]
    /\ ebird = [pc |-> "idle", requests |-> 0, features |-> 0]
    /\ fetched = [pc |-> "idle", features |-> <<>>]
    /\ EngineIdle
    /\ ClassIdle
    /\ AppIdle
    /\ NormIdle
    /\ LoaderIdle
    /\ SearchIdle

NextFetch ==
    \/ fetchAllObservations
    \/ inatPageAnswers
    \/ ebirdLookupAnswers
    \/ ebirdFetchAnswers
    \/ promiseAllSettles

SpecFetch == InitFetch /\ [][NextFetch]_vars

\* Every request the browser sends settles (with an answer or an error), so
\* a pending page request is eventually answered.
SpecFetchFair == SpecFetch /\ WF_vars(inatPageAnswers)

----------------------------------------------------------------------------
(* data-loader.js, both versions: loadGeoJSON, loadAllTrails, loadAll *)

\* The files loadAll requests, in the order of its Promise.all: the boundary,
\* the watersheds, then the trail files (TRAIL_FILES, or the one trails file
\* of the single-file version).
BoundaryFile == 1
WatershedsFile == 2
TrailFiles(version) ==
    IF version = "multi" THEN 3..(2 + MaxTrailFiles) ELSE {3}

Collection(origin, features) ==
    [null |-> FALSE, origin |-> origin, features |-> features]

\* The features of a file with n of them, as parsed.
FileFeatures(n) == [j \in 1..n |-> [index |-> j, watershed |-> 0]]

FileAnswers(f) ==
    IF f \in {BoundaryFile, WatershedsFile} THEN {Failure, Rows(1)}
    ELSE {Failure} \cup {Rows(n) : n \in 0..MaxFileFeatures}

\* Variant: loadGeoJSON without its catch.
LoadGeoJSONUncaught(answer) ==
    IF answer.ok
    THEN [pc |-> "fulfilled", answer |-> answer,
          value |-> Collection("file", FileFeatures(answer.rows))]
    ELSE [pc |-> "rejected", answer |-> answer, value |-> NullGeoJSON]

\* loadGeoJSON: the parsed file, or null when the fetch fails, answers
\* !res.ok or does not parse.
LoadGeoJSON(answer) ==
    [pc |-> "fulfilled", answer |-> answer,
     value |-> IF answer.ok
               THEN Collection("file", FileFeatures(answer.rows))
               ELSE NullGeoJSON]

\* a || b on a loaded collection.
OrElse(value, fallback) == IF value.null THEN fallback ELSE value

\* fallbackBoundary() / fallbackWatersheds() and the placeholder generators.
Fallback == Collection("fallback", FileFeatures(1))

\* The then-callback of loadAllTrails: no feature for a file that did not
\* load, else its features, each tagged with the watershed of its file.
TrailArray(f, value) ==
    IF value.null THEN <<>>
    ELSE [j \in DOMAIN value.features |->
             [value.features[j] EXCEPT !.watershed = f]]

\* allArrays.flat()
RECURSIVE Flat(_, _)
Flat(arrays, k) ==
    IF k > Len(arrays) THEN <<>> ELSE arrays[k] \o Flat(arrays, k + 1)

LoadAllTrails(slots) ==
    Collection("merged",
               Flat([i \in 1..MaxTrailFiles |->
                        TrailArray(2 + i, slots[2 + i].value)], 1))

\* loadAll up to its await: every file is requested.
loadAll ==
    /\ loaded.pc = "idle"
    /\ loaded' = [loaded EXCEPT !.pc = "pending"]
    /\ files' = [f \in 1..(2 + Cardinality(TrailFiles(loaderVersion))) |->
                    [pc |-> "pending", answer |-> Failure,
                     value |-> NullGeoJSON]]
    /\ UNCHANGED <<loaderVersion, loaderOthers>>

\* One file's request settles and its loadGeoJSON returns.
fileAnswers ==
    \E f \in DOMAIN files :
        \E answer \in FileAnswers(f) :
            /\ files[f].pc = "pending"
            /\ files' = [files EXCEPT ![f] = LoadGeoJSON(answer)]
            /\ UNCHANGED <<loaderVersion, loaded, loaderOthers>>

\* Promise.all settles and loadAll returns (or throws, were a promise of
\* its list rejected).
loadAllSettles ==
    /\ loaded.pc = "pending"
    /\ IF \E f \in DOMAIN files : files[f].pc = "rejected"
       THEN loaded' = [loaded EXCEPT !.pc = "rejected"]
       ELSE /\ \A f \in DOMAIN files : files[f].pc = "fulfilled"
            /\ loaded' =
                 [pc |-> "resolved",
                  boundary |-> OrElse(files[BoundaryFile].value, Fallback),
                  watersheds |-> OrElse(files[WatershedsFile].value, Fallback),
                  trails |-> IF loaderVersion = "multi"
                             THEN LoadAllTrails(files)
                             ELSE OrElse(files[3].value, Fallback)]
    /\ UNCHANGED <<loaderVersion, files, loaderOthers>>

InitLoader ==
    /\ loaderVersion \in {"multi", "single"}
    /\ files = <<>>
    /\ loaded = [pc |-> "idle", boundary |-> NullGeoJSON,
                 watersheds |-> NullGeoJSON, trails |-> NullGeoJSON]
    /\ EngineIdle
    /\ ClassIdle
    /\ AppIdle
    /\ NormIdle
    /\ FetchIdle
    /\ SearchIdle

NextLoader ==
    \/ loadAll
    \/ fileAnswers
    \/ loadAllSettles

SpecLoader == InitLoader /\ [][NextLoader]_vars

----------------------------------------------------------------------------
(* app.js: setupSearch and autocomplete *)

Chars == {" ", "a"}

InputValues == UNION {[1..n -> Chars] : n \in 0..MaxInputLen}

\* String.prototype.trim
RECURSIVE TrimStart(_)
TrimStart(str) ==
    IF str # <<>> /\ Head(str) = " " THEN TrimStart(Tail(str)) ELSE str

RECURSIVE TrimEnd(_)
TrimEnd(str) ==
    IF str # <<>> /\ str[Len(str)] = " "
    THEN TrimEnd(SubSeq(str, 1, Len(str) - 1))
    ELSE str

Trim(str) == TrimEnd(TrimStart(str))

TickMs == debounceMs \div TicksPerDelay

\* Variant: the input handler without its clearTimeout.
NotCleared(pending, handle) == pending

\* clearTimeout(handle)
Cleared(pending, handle) == {t \in pending : t.id # handle}

\* The handle setTimeout returns: one no pending timer has.
FreshId(pending, handle) ==
    CHOOSE i \in 1..(Cardinality(pending) + 2) :
        i # handle /\ \A t \in pending : t.id # i

\* autocomplete(query) up to its await: searchSpecies sends a request
\* unless the query has fewer than 2 characters.
Autocomplete(query, via) ==
    IF Len(query) < 2
    THEN UNCHANGED <<lastSearch, inFlight>>
    ELSE /\ lastSearch' = [issued |-> TRUE, q |-> query, via |-> via,
                           quiet |-> sinceInput]
         /\ inFlight' = inFlight + 1

\* selectSpecies, lines 495-497, as far as the search box goes.
SuggestionChosen ==
    /\ suggestions' = [suggestions EXCEPT !.hidden = TRUE]
    /\ inputValue' = <<>>

\* first.click(): a listed taxon selects its species; the "No species
\* found" row has no listener.
FirstClicked ==
    IF suggestions.items = "taxa" THEN SuggestionChosen
    ELSE UNCHANGED <<suggestions, inputValue>>

\* The input listener, lines 436-444.
inputEvent ==
    \E value \in InputValues :
        LET q    == Trim(value)
            kept == Cleared(timers, searchTimeout)
        IN  /\ inFlight < MaxInFlight
            /\ inputValue' = value
            /\ sinceInput' = 0
            /\ IF Len(q) < 2
               THEN /\ timers' = kept
                    /\ suggestions' = [suggestions EXCEPT !.hidden = TRUE]
                    /\ UNCHANGED searchTimeout
               ELSE /\ searchTimeout' = FreshId(kept, searchTimeout)
                    /\ timers' = kept \cup
                          {[id |-> FreshId(kept, searchTimeout), q |-> q,
                            due |-> debounceMs]}
                    /\ UNCHANGED suggestions
            /\ UNCHANGED <<lastSearch, inFlight, searchOthers>>

\* Time passes, no further than the next timer is due.
tick ==
    /\ \A t \in timers : t.due > 0
    /\ sinceInput < debounceMs \/ timers # {}
    /\ sinceInput' = IF sinceInput + TickMs > debounceMs THEN debounceMs
                     ELSE sinceInput + TickMs
    /\ timers' = {[t EXCEPT !.due = IF @ > TickMs THEN @ - TickMs ELSE 0] :
                     t \in timers}
    /\ UNCHANGED <<inputValue, searchTimeout, lastSearch, inFlight,
                   suggestions, searchOthers>>

\* A due timer runs its callback, line 443.
timerFires ==
    \E t \in timers :
        /\ t.due = 0
        /\ timers' = timers \ {t}
        /\ Autocomplete(t.q, "timer")
        /\ UNCHANGED <<inputValue, searchTimeout, sinceInput, suggestions,
                       searchOthers>>

\* The keydown listener with Enter, lines 446-452, and a click on the
\* first suggestion.
keydownEnter ==
    /\ suggestions.items # "none"
    /\ FirstClicked
    /\ UNCHANGED <<searchTimeout, timers, sinceInput, lastSearch, inFlight,
                   searchOthers>>

\* The click listener of the search button, lines 454-458.
clickSearch ==
    /\ inFlight + Cardinality(timers) < MaxInFlight
    /\ IF suggestions.items # "none"
       THEN FirstClicked /\ UNCHANGED <<lastSearch, inFlight>>
       ELSE /\ Autocomplete(Trim(inputValue), "button")
            /\ UNCHANGED <<suggestions, inputValue>>
    /\ UNCHANGED <<searchTimeout, timers, sinceInput, searchOthers>>

\* autocomplete after its await, lines 462-490: the answer fills the box
\* and shows it.
searchAnswers ==
    \E found \in BOOLEAN :
        /\ inFlight > 0
        /\ inFlight' = inFlight - 1
        /\ suggestions' = [hidden |-> FALSE,
                           items |-> IF found THEN "taxa" ELSE "notFound"]
        /\ UNCHANGED <<inputValue, searchTimeout, timers, sinceInput,
                       lastSearch, searchOthers>>

InitSearch ==
    /\ SearchIdle
    /\ EngineIdle
    /\ ClassIdle
    /\ AppIdle
    /\ NormIdle
    /\ FetchIdle
    /\ LoaderIdle

NextSearch ==
    \/ inputEvent
    \/ tick
    \/ timerFires
    \/ keydownEnter
    \/ clickSearch
    \/ searchAnswers

SpecSearch == InitSearch /\ [][NextSearch]_vars

----------------------------------------------------------------------------
(* The normalisation pass of scoreTrails and getTrailColor *)

\* Lines 125-129 of scoreTrails: every scoreNorm from the counts.
NormalisePass(ts) ==
    LET maxObs == MaxNearby(ts, 1)
    IN  [j \in DOMAIN ts |->
           [ts[j] EXCEPT !.scoreNorm = Normalised(ts[j].obsNearby, maxObs)]]

\* getTrailColor, lines 137-144: the index into CONFIG.trailScoreColors for
\* a scoreNorm in thousandths.
TrailColorIndex(scoreNorm) ==
    IF scoreNorm <= 0 THEN 0
    ELSE IF 4 * scoreNorm < ScoreScale THEN 1
    ELSE IF 2 * scoreNorm < ScoreScale THEN 2
    ELSE IF 4 * scoreNorm < 3 * ScoreScale THEN 3
    ELSE 4

\* Counts the counting loop can leave on the busier of two trails: up to
\* the 1000 observations of one iNaturalist query, and beyond when eBird
\* rows are merged in or the engine is called with a larger collection.
BusyCounts == {0, 1, 2, 999, 1000, 1999, 2000, 2001, 3000}

\* A trail feature holding the count the loop of lines 108-123 gave it.
CountedTrail(i, n) ==
    [NewTrail(i, [pos |-> 0, bad |-> FALSE]) EXCEPT !.obsNearby = n]

normaliseScores ==
    /\ ~normDone
    /\ normTrails' = NormalisePass(normTrails)
    /\ normDone' = TRUE
    /\ UNCHANGED normOthers

InitNormalise ==
    /\ \E quiet \in 0..MaxQuietCount, busy \in BusyCounts :
          normTrails = <<CountedTrail(1, quiet), CountedTrail(2, busy)>>
    /\ normDone = FALSE
    /\ EngineIdle
    /\ ClassIdle
    /\ AppIdle
    /\ FetchIdle
    /\ LoaderIdle
    /\ SearchIdle

NextNormalise == normaliseScores

SpecNormalise == InitNormalise /\ [][NextNormalise]_vars

----------------------------------------------------------------------------
(* Vocabulary of the properties *)

\* The polygon of ws contains the point (the primitive answers true).
Inside(pt, ws) == pt.valid /\ booleanPointInPolygon(pt, ws) = "true"

\* Indices of the watersheds containing pt, and the first of them.
Containing(pt) == {j \in DOMAIN watersheds : Inside(pt, watersheds[j])}
FirstContaining(pt) ==
    CHOOSE j \in Containing(pt) : \A k \in Containing(pt) : j <= k

WellFormedPoints == \A i \in DOMAIN observations : observations[i].valid

\* The positions a watershed polygon covers; a malformed one covers none.
Covers(ws) == IF ws.geom.bad THEN {} ELSE ws.geom.cells

NonOverlapping ==
    \A a, b \in DOMAIN watersheds :
        a # b => Covers(watersheds[a]) \cap Covers(watersheds[b]) = {}

RECURSIVE SumObsCount(_, _)
SumObsCount(wss, j) ==
    IF j > Len(wss) THEN 0 ELSE wss[j].obsCount + SumObsCount(wss, j + 1)

\* v (in units of 1/scale) is num/den rounded to the nearest unit, the
\* larger unit on a tie; den > 0.
IsRounded(v, num, den, scale) ==
    /\ 2 * (v * den - num * scale) <= den
    /\ 2 * (num * scale - v * den) < den

\* The trail is within the buffer of the point.
Near(pt, t, bufferM) ==
    pt.valid /\ ~NearestThrows(t) /\ NearestDist(t, pt) <= bufferM

\* max(1, largest obsNearby), stated without the fold.
MaxCount ==
    IF \A j \in DOMAIN trails : trails[j].obsNearby <= 1 THEN 1
    ELSE CHOOSE m \in {trails[j].obsNearby : j \in DOMAIN trails} :
            \A j \in DOMAIN trails : trails[j].obsNearby <= m

----------------------------------------------------------------------------
(* Properties *)

\* C1: in aggregateByWatershed every processed point increments exactly the
\* first watershed (in the order of watersheds.features) whose polygon
\* contains it, and no other one; a point contained in no watershed
\* increments none.  The counts are exactly those increments.
C1_FirstMatchOnly ==
    aggOutcome # "none" =>
        /\ \A i \in DOMAIN hits :
              hits[i] = IF Containing(observations[i]) = {} THEN <<>>
                        ELSE <<FirstContaining(observations[i])>>
        /\ \A j \in DOMAIN watersheds :
              watersheds[j].obsCount =
                  Cardinality({i \in DOMAIN hits : hits[i] = <<j>>})

\* Regions [A, B] both contain the one point: A is counted, B is not.
C1_Witness ==
    /\ aggOutcome = "ok"
    /\ Len(observations) = 1
    /\ Len(watersheds) = 2
    /\ Containing(observations[1]) = {1, 2}
    /\ watersheds[1].obsCount = 1
    /\ watersheds[2].obsCount = 0

\* C2: a second aggregateByWatershed on the same watersheds and observations
\* leaves every obsCount and obsDensity as the first one left them.
C2_Idempotent ==
    aggRepeat => WsMetrics(watersheds) = prevAgg

\* A repeated run that counted something.
C2_Witness ==
    /\ aggRepeat
    /\ aggOutcome = "ok"
    /\ \E j \in DOMAIN watersheds :
          watersheds[j].obsCount = 2 /\ watersheds[j].obsDensity > 0

\* C3: with pairwise non-overlapping watersheds and any set of points, the
\* call returns and the obsCount of all watersheds sum to the number of
\* points lying inside at least one watershed.
C3_Partition ==
    (aggOutcome # "none" /\ NonOverlapping /\ WellFormedPoints) =>
        /\ aggOutcome = "ok"
        /\ SumObsCount(watersheds, 1) =
              Cardinality({i \in DOMAIN observations :
                              Containing(observations[i]) # {}})

\* Two disjoint watersheds, one point inside one of them and one point
\* inside none.
C3_Witness ==
    /\ aggOutcome = "ok"
    /\ Len(watersheds) = 2
    /\ NonOverlapping
    /\ Len(observations) = 2
    /\ Containing(observations[1]) # {}
    /\ Containing(observations[2]) = {}
    /\ SumObsCount(watersheds, 1) = 1

C5_DensityNonNegative ==
    aggOutcome # "none" =>
        \A j \in DOMAIN watersheds :
            /\ watersheds[j].obsDensity \in Nat
            /\ (TurfAreaThrows(watersheds[j]) \/ TurfArea(watersheds[j]) = 0)
                  => watersheds[j].obsDensity = 0

\* A degenerate watershed (area 0) that counted a point.
C5_Witness ==
    /\ aggOutcome = "ok"
    /\ \E j \in DOMAIN watersheds :
          /\ ~TurfAreaThrows(watersheds[j])
          /\ TurfArea(watersheds[j]) = 0
          /\ watersheds[j].obsCount > 0
          /\ watersheds[j].obsDensity = 0

\* C6: with malformed watersheds or observation points among the inputs,
\* aggregateByWatershed still returns normally, and every well-formed point
\* is counted in the first well-formed watershed containing it.
C6_MalformedSkipped ==
    aggOutcome # "none" =>
        /\ aggOutcome = "ok"
        /\ \A j \in DOMAIN watersheds :
              watersheds[j].obsCount =
                  Cardinality({i \in DOMAIN observations :
                                  /\ Containing(observations[i]) # {}
                                  /\ FirstContaining(observations[i]) = j})

\* C7: after scoreTrails each trail's obsNearby is the number of observation
\* points whose nearest-point distance to it is <= the buffer, whatever it
\* held before and whatever the other trails count.
C7_NearbyCount ==
    scoreOutcome = "ok" =>
        \A j \in DOMAIN trails :
            trails[j].obsNearby =
                Cardinality({i \in DOMAIN observations :
                                Near(observations[i], trails[j],
                                     EffectiveBuffer(bufferArg))})

\* One point within the buffer of two trails, of one exactly at the buffer
\* distance: both count it.
C7_Witness ==
    /\ scoreOutcome = "ok"
    /\ Len(observations) = 1
    /\ Len(trails) = 2
    /\ trails[1].obsNearby = 1
    /\ trails[2].obsNearby = 1
    /\ \E j \in DOMAIN trails :
          NearestDist(trails[j], observations[1]) = EffectiveBuffer(bufferArg)

C8_WitnessZero ==
    /\ scoreOutcome = "ok"
    /\ observations # <<>>
    /\ trails # <<>>
    /\ \A j \in DOMAIN trails :
          trails[j].obsNearby = 0 /\ trails[j].scoreNorm = 0

\* C9: after scoreTrails every scoreNorm lies in [0, 1], and some trail has
\* scoreNorm 1 whenever some trail has obsNearby > 0.
C9_ScoreBounded ==
    scoreOutcome = "ok" =>
        /\ \A j \in DOMAIN trails :
              trails[j].scoreNorm >= 0 /\ trails[j].scoreNorm <= ScoreScale
        /\ (\E j \in DOMAIN trails : trails[j].obsNearby > 0)
              => \E j \in DOMAIN trails : trails[j].scoreNorm = ScoreScale

\* Two trails with different positive counts: one scores 1, the other less.
C9_Witness ==
    /\ scoreOutcome = "ok"
    /\ \E j, k \in DOMAIN trails :
          /\ trails[j].obsNearby > trails[k].obsNearby
          /\ trails[k].obsNearby > 0
          /\ trails[j].scoreNorm = ScoreScale
          /\ trails[k].scoreNorm < ScoreScale

\* C10: with zero points aggregateByWatershed and scoreTrails return
\* normally and leave every metric 0, and the rankings taken afterwards are
\* empty; with zero watersheds or zero trails the calls return normally.
C10_EmptyInput ==
    /\ (aggOutcome # "none" /\ observations = <<>>) =>
          /\ aggOutcome = "ok"
          /\ \A j \in DOMAIN watersheds :
                watersheds[j].obsCount = 0 /\ watersheds[j].obsDensity = 0
          /\ rankedOf = "watersheds" => ranked = <<>>
    /\ (scoreOutcome # "none" /\ observations = <<>>) =>
          /\ scoreOutcome = "ok"
          /\ \A j \in DOMAIN trails :
                trails[j].obsNearby = 0 /\ trails[j].scoreNorm = 0
          /\ rankedOf = "trails" => ranked = <<>>
    /\ (aggOutcome # "none" /\ watersheds = <<>> /\ WellFormedPoints) =>
          aggOutcome = "ok"
    /\ (scoreOutcome # "none" /\ trails = <<>> /\ WellFormedPoints) =>
          scoreOutcome = "ok"

\* Zero points on layers that held counts of an earlier run: both calls
\* returned, everything is 0 again and the watershed ranking is empty.
C10_Witness ==
    /\ observations = <<>>
    /\ aggOutcome = "ok"
    /\ scoreOutcome = "ok"
    /\ ~aggRepeat
    /\ \E j \in DOMAIN prevAgg : prevAgg[j][1] > 0
    /\ trails # <<>>
    /\ rankedOf = "watersheds"
    /\ ranked = <<>>

\* The breakpoints are strictly ascending.
Ascending(breaks) ==
    \A i, j \in DOMAIN breaks : i < j => breaks[i] < breaks[j]

\* The 0-based indices whose breakpoint the count reaches.
Reached(breaks, cnt) == {i \in 0..(Len(breaks) - 1) : cnt >= breaks[i + 1]}

\* C11: for ascending breakpoints classifyDensity(count) returns the highest
\* index i with count >= breakpoints[i], and 0 when count is below the first
\* breakpoint; with the default breakpoints a count of 42 is in class 4.
C11_HighestBreakReached ==
    (classIndex # <<>> /\ Ascending(classBreaks)) =>
        /\ Reached(classBreaks, classCount) = {} => classIndex[1] = 0
        /\ Reached(classBreaks, classCount) # {} =>
              /\ classIndex[1] \in Reached(classBreaks, classCount)
              /\ \A i \in Reached(classBreaks, classCount) : i <= classIndex[1]
        /\ (classBreaks = densityBreaks /\ classCount = 42) => classIndex[1] = 4

\* The default breakpoints and a count equal to a breakpoint: 40 is in
\* class 4 already.
C11_Witness ==
    /\ classBreaks = densityBreaks
    /\ classCount = 40
    /\ classIndex = <<4>>

\* A step of scoreTrails: only it touches the trails and its ghosts.
ScoreTrailsStep ==
    <<trails, scoreOutcome, bufferArg>>' # <<trails, scoreOutcome, bufferArg>>

\* C12: a call with an invalid configuration (here scoreTrails with a
\* negative buffer distance) is rejected with an error before any
\* computation: the call throws and no trail metric is reset or changed.
C12_InvalidConfigRejected ==
    [][(ScoreTrailsStep /\ bufferArg' < 0) =>
          (scoreOutcome' = "threw" /\ trails' = trails)]_vars

\* `list` holds exactly the features of fs with properties[field] > 0, each
\* once and as it is in fs (the `id` of a feature is its index in fs).
ExactlyPositive(list, fs, field) ==
    /\ \A k \in DOMAIN list :
          list[k].id \in DOMAIN fs /\ list[k] = fs[list[k].id]
    /\ {list[k].id : k \in DOMAIN list} =
          {j \in DOMAIN fs : Prop(fs[j], field) > 0}
    /\ \A k, l \in DOMAIN list : k # l => list[k].id # list[l].id

\* `list` is non-increasing by properties[field], equal keys in the order of
\* the feature list.
DescendingStable(list, field) ==
    \A k, l \in DOMAIN list :
        k < l => /\ Prop(list[k], field) >= Prop(list[l], field)
                 /\ Prop(list[k], field) = Prop(list[l], field)
                       => list[k].id < list[l].id

\* C13: rankWatersheds returns exactly the watersheds with obsCount > 0 (none
\* with obsCount 0, none missing, none twice), in non-increasing obsCount,
\* ties in the order of watersheds.features.
C13_RankWatersheds ==
    rankedOf = "watersheds" =>
        /\ ExactlyPositive(ranked, watersheds, "obsCount")
        /\ DescendingStable(ranked, "obsCount")

\* Two watersheds with the same positive count, returned in feature order.
C13_Witness ==
    /\ rankedOf = "watersheds"
    /\ Len(ranked) = 2
    /\ ranked[1].obsCount = ranked[2].obsCount
    /\ ranked[1].id = 1

\* C14: rankTrails returns exactly the trails with obsNearby > 0, in
\* non-increasing obsNearby, ties in input order; the trail metrics being
\* those of a scoreTrails call, the order is also non-increasing in scoreNorm.
C14_RankTrails ==
    rankedOf = "trails" =>
        /\ ExactlyPositive(ranked, trails, "obsNearby")
        /\ DescendingStable(ranked, "obsNearby")
        /\ \A k, l \in DOMAIN ranked :
              k < l => ranked[k].scoreNorm >= ranked[l].scoreNorm

\* The second trail counted more than the first: it is ranked first, with
\* score 1 above 0.5.
C14_Witness ==
    /\ rankedOf = "trails"
    /\ scoreOutcome = "ok"
    /\ Len(ranked) = 2
    /\ ranked[1].id = 2
    /\ ranked[1].scoreNorm = ScoreScale
    /\ ranked[2].scoreNorm = ScoreScale \div 2

\* Identity and geometry of the features, in list order.
Geoms(fs) == [i \in DOMAIN fs |-> <<fs[i].id, fs[i].geom>>]

\* A step of aggregateByWatershed: only it touches these.
AggregateStep ==
    <<watersheds, aggOutcome, hits, aggRepeat, prevAgg>>'
        # <<watersheds, aggOutcome, hits, aggRepeat, prevAgg>>

\* C15: aggregateByWatershed writes only obsCount and obsDensity of the
\* watersheds, scoreTrails only obsNearby and scoreNorm of the trails; no
\* operation changes a geometry, the observations or the order of a feature
\* list; the rankings and classifyDensity change nothing of them.
C15_Frame ==
    [][/\ Geoms(watersheds') = Geoms(watersheds)
       /\ Geoms(trails') = Geoms(trails)
       /\ observations' = observations
       /\ AggregateStep => trails' = trails
       /\ ScoreTrailsStep => watersheds' = watersheds
       /\ (rankedOf' # "none" \/ classIndex' # classIndex)
             => (watersheds' = watersheds /\ trails' = trails)]_vars

\* scoreTrails wrote the trail metrics and the ranking taken afterwards
\* returned the second trail first: the trail list is still in its order.
C15_Witness ==
    /\ scoreOutcome = "ok"
    /\ rankedOf = "trails"
    /\ Len(ranked) = 2
    /\ ranked[1].id = 2
    /\ trails[1].id = 1
    /\ trails[1].obsNearby = 1
    /\ trails[2].id = 2

\* C16: aggregateByWatershed and scoreTrails are independent: neither
\* changes the metrics the other wrote, and once both have run, in either
\* order, the metrics are those each computes from the inputs on its own.
C16_Independent ==
    /\ [][(AggregateStep => trails' = trails)
            /\ (ScoreTrailsStep => watersheds' = watersheds)]_vars
    /\ []((aggOutcome # "none" /\ scoreOutcome # "none") =>
             /\ watersheds = AggregateResult(watersheds, observations).ws
             /\ trails = ScoreResult(trails, observations, bufferArg).ts)

\* Both have run on one watershed and one trail, and both counted.
C16_Witness ==
    /\ aggOutcome = "ok"
    /\ scoreOutcome = "ok"
    /\ \E j \in DOMAIN watersheds : watersheds[j].obsCount > 0
    /\ \E j \in DOMAIN trails : trails[j].obsNearby > 0

\* Every fetch has resolved and every scheduled analysis callback has fired.
Quiescent ==
    /\ \A i \in DOMAIN requests : ~requests[i].pending
    /\ analysisTimers = 0

\* The number of the most recent fetchAllObservations call.
Latest == Len(requests)

\* C17: whatever the interleaving of selections, toggle changes, clears,
\* fetch completions and timer firings, an analysis callback resets, counts
\* and normalises both feature sets in one uninterrupted step: once the
\* engine has been run on an observation set, no state shows metrics that
\* were reset and not recomputed, i.e. every watershed holds the number of
\* points whose first containing watershed it is and every trail the number
\* of points within the default buffer.
C17_NoPartialMetrics ==
    aggOutcome # "none" =>
        /\ scoreOutcome = "ok"
        /\ \A j \in DOMAIN watersheds :
              watersheds[j].obsCount =
                  Cardinality({i \in DOMAIN observations :
                                  /\ Inside(observations[i], watersheds[j])
                                  /\ \A k \in 1..(j - 1) :
                                        ~Inside(observations[i], watersheds[k])})
        /\ \A j \in DOMAIN trails :
              trails[j].obsNearby =
                  Cardinality({i \in DOMAIN observations :
                                  Near(observations[i], trails[j],
                                       trailBufferMeters)})

\* C18: once every fetch and deferred analysis is done, currentObservations
\* is the answer to the most recent request (the one made for currentSpecies
\* with the latest toggle settings), and so are the analysed metrics when
\* that answer holds well-formed points.
C18_LatestSelectionWins ==
    (Quiescent /\ currentSpecies # "null") =>
        /\ currentObservations # Null
        /\ currentObservations[1].req = Latest
        /\ requests[Latest].species = currentSpecies
        /\ (/\ currentObservations[1].features # <<>>
            /\ \A i \in DOMAIN currentObservations[1].features :
                  currentObservations[1].features[i].valid)
              => analysedReq = Latest

\* C19: the deferred analysis callback never executes with
\* currentObservations == null.
C19_CallbackNeverSeesNull ==
    callbackSaw # "null"

\* C20: with no species selected (clearSpecies ran and nothing was selected
\* since), once every fetch and timer started earlier is done,
\* currentObservations is null, no observation or heatmap layer exists and
\* the results panel is hidden.
C20_ClearedStatePersists ==
    (currentSpecies = "null" /\ Quiescent) =>
        /\ currentObservations = Null
        /\ ~observationLayers
        /\ ~resultsShown

\* C21: every species selection eventually leaves the loading overlay
\* hidden: once every fetch has resolved and every deferred analysis has
\* fired, the overlay is not visible.
C21_LoadingHiddenWhenQuiescent ==
    Quiescent => ~loadingShown

\* The application shows no analysed species: it was cleared, or the last
\* answer held no observations, and the results panel is hidden.
NoAnalysedSpecies ==
    /\ ~resultsShown
    /\ \/ currentSpecies = "null"
       \/ (currentObservations # Null /\ currentObservations[1].features = <<>>)

\* C22: whenever the application shows no analysed species, every
\* watershed's obsCount and obsDensity and every trail's obsNearby and
\* scoreNorm is 0.
C22_NoStaleMetrics ==
    NoAnalysedSpecies =>
        /\ \A j \in DOMAIN watersheds :
              watersheds[j].obsCount = 0 /\ watersheds[j].obsDensity = 0
        /\ \A j \in DOMAIN trails :
              trails[j].obsNearby = 0 /\ trails[j].scoreNorm = 0

\* C23: after the normalisation of scoreTrails a trail has scoreNorm = 0
\* exactly when its obsNearby = 0; so a trail with a nearby observation
\* never gets the colour getTrailColor keeps for "zero", and every trail
\* rankTrails returns has scoreNorm > 0.
C23_ZeroScoreIffZeroCount ==
    normDone =>
        /\ \A j \in DOMAIN normTrails :
              /\ normTrails[j].scoreNorm = 0 <=> normTrails[j].obsNearby = 0
              /\ normTrails[j].obsNearby > 0
                    => TrailColorIndex(normTrails[j].scoreNorm) # 0
        /\ \A k \in DOMAIN RankTrails(normTrails) :
              RankTrails(normTrails)[k].scoreNorm > 0

\* C24: with the default breakpoints classifyDensity returns, for every
\* integer count (negative ones included), a valid index into
\* CONFIG.densityColors, and for a count >= 0 the one legend row whose
\* printed range contains the count.
C24_ColourAgreesWithLegend ==
    (classIndex # <<>> /\ classBreaks = densityBreaks) =>
        /\ classIndex[1] \in 0..(Len(densityColors) - 1)
        /\ classCount >= 0 =>
              \A i \in 0..(Len(densityBreaks) - 1) :
                  InLegendRow(densityBreaks, i, classCount)
                      <=> i = classIndex[1]

\* A negative count, classified into row 0.
C24_Witness ==
    /\ classBreaks = densityBreaks
    /\ classCount < 0
    /\ classIndex = <<0>>

----------------------------------------------------------------------------
(* Claims about the API client *)

\* The pages requested so far are 1, 2, ... in order.
PagesInOrder == inat.pages = [k \in 1..Len(inat.pages) |-> k]

\* Every page answered before the last answered one was a full page.
EarlierPagesFull ==
    \A k \in 1..(Len(inat.answers) - 1) :
        inat.answers[k].ok /\ inat.answers[k].rows = perPage

INatReturned == inat.pc \in {"done", "rejected"}

\* C25: fetchINatObservations always terminates; it requests pages 1, 2, ...
\* strictly in order and at most maxPages of them, requests no page after
\* the first one that fails or has fewer than perPage rows, keeps the rows
\* of the pages answered before a failure, and returns at most
\* perPage * maxPages observations.
C25_PagingTerminates ==
    /\ [](/\ PagesInOrder
          /\ Len(inat.pages) <= maxPages
          /\ EarlierPagesFull
          /\ inat.rows = RowsOf(inat.answers, 1)
          /\ inat.pc = "paging" =>
                /\ Len(inat.pages) = Len(inat.answers) + 1
                /\ \A k \in 1..Len(inat.answers) :
                       inat.answers[k] = Rows(perPage)
          /\ INatReturned => Len(inat.pages) = Len(inat.answers)
          /\ inat.pc = "done" =>
                /\ inat.features <= inat.rows
                /\ inat.rows - 1 <= inat.features
                /\ inat.features <= perPage * maxPages)
    /\ (inat.pc = "paging" ~> INatReturned)

\* Three full pages were kept when the fourth request failed.
C25_Witness ==
    /\ inat.pc = "done"
    /\ inat.pages = <<1, 2, 3, 4>>
    /\ inat.answers[4] = Failure
    /\ inat.features = 3 * perPage

\* C26: fetchAllObservations resolves with the features of the enabled
\* sources only, iNaturalist first; no failed request and no HTTP error
\* makes it reject (a failed page leaves the rows of the earlier pages, a
\* failed eBird lookup or fetch leaves no eBird feature); without the eBird
\* API key no eBird request is made and eBird contributes nothing; with both
\* sources disabled the result is empty.
C26_FailingSourceTolerated ==
    /\ ebird.pc # "rejected"
    /\ inat.pc = "rejected" => inat.rows > 0
    /\ fetched.pc = "rejected" => inat.pc = "rejected"
    /\ ~fetchArgs.useINat => inat.pages = <<>> /\ inat.features = 0
    /\ ~(fetchArgs.useEbird /\ fetchArgs.apiKey) =>
          ebird.requests = 0 /\ ebird.features = 0
    /\ inat.pc = "done" =>
          inat.rows - 1 <= inat.features /\ inat.features <= inat.rows
    /\ fetched.pc = "resolved" =>
          /\ fetchArgs.useINat => inat.pc = "done"
          /\ fetchArgs.useEbird => ebird.pc = "done"
          /\ fetched.features = Merged
          /\ \A k \in DOMAIN fetched.features :
                 \/ fetched.features[k].source = "iNaturalist"
                       /\ fetchArgs.useINat
                 \/ fetched.features[k].source = "eBird"
                       /\ fetchArgs.useEbird
          /\ ~fetchArgs.useINat /\ ~fetchArgs.useEbird =>
                 fetched.features = <<>>

\* Both sources failed part way: the second iNaturalist page and the eBird
\* fetch; the call resolved with the first page and no eBird feature.
C26_Witness ==
    /\ fetched.pc = "resolved"
    /\ inat.answers = <<Rows(perPage), Failure>>
    /\ ebird.requests = 2
    /\ fetched.features = <<[source |-> "iNaturalist", count |-> perPage],
                            [source |-> "eBird", count |-> 0]>>

----------------------------------------------------------------------------
(* Claims about the data loader *)

\* The features of the merged trails that came from trail file f.
FromFile(f) ==
    {k \in DOMAIN loaded.trails.features :
        loaded.trails.features[k].watershed = f}

\* C27: DataLoader.loadAll never rejects, and for every combination of
\* loaded and failed files it resolves with non-null boundary, watersheds
\* and trails: a base file that failed is replaced by its fallback, and in
\* the multi-file loader a failed trail file contributes no feature while
\* every loaded trail file contributes all of its own.
C27_LoadAllNeverRejects ==
    /\ loaded.pc # "rejected"
    /\ loaded.pc = "resolved" =>
          /\ ~loaded.boundary.null
          /\ ~loaded.watersheds.null
          /\ ~loaded.trails.null
          /\ loaded.boundary.origin =
                IF files[BoundaryFile].answer.ok THEN "file" ELSE "fallback"
          /\ loaded.watersheds.origin =
                IF files[WatershedsFile].answer.ok THEN "file" ELSE "fallback"
          /\ loaderVersion = "single" =>
                loaded.trails.origin =
                   IF files[3].answer.ok THEN "file" ELSE "fallback"
          /\ loaderVersion = "multi" =>
                /\ \A f \in TrailFiles("multi") :
                       Cardinality(FromFile(f)) = files[f].answer.rows
                /\ \A k \in DOMAIN loaded.trails.features :
                       loaded.trails.features[k].watershed
                           \in TrailFiles("multi")

\* The boundary and the first trail file failed, the last trail file loaded
\* one feature: the result has the fallback boundary and that one trail.
C27_Witness ==
    /\ loaded.pc = "resolved"
    /\ loaderVersion = "multi"
    /\ ~files[BoundaryFile].answer.ok
    /\ files[WatershedsFile].answer.ok
    /\ ~files[3].answer.ok
    /\ files[2 + MaxTrailFiles].answer = Rows(1)
    /\ loaded.boundary = Fallback
    /\ [index |-> 1, watershed |-> 2 + MaxTrailFiles]
          \in {loaded.trails.features[k] : k \in DOMAIN loaded.trails.features}

----------------------------------------------------------------------------
(* Claims about the species search *)

\* The request issued last was sent for a trimmed query of two characters
\* or more.
TrimmedQuery ==
    lastSearch.issued =>
        Len(lastSearch.q) >= 2 /\ lastSearch.q = Trim(lastSearch.q)

\* C28 as stated: at most one autocomplete timer is pending, and every
\* autocomplete request is issued for a trimmed query of at least 2
\* characters after debounceMs without an input event.
C28_RequestsOnlyAfterDelay ==
    /\ Cardinality(timers) <= 1
    /\ TrimmedQuery
    /\ lastSearch.issued => lastSearch.quiet >= debounceMs

\* C28, amended: every input event cancels the pending timer, so at most
\* one timer is pending; every autocomplete request is issued for a trimmed
\* query of at least 2 characters; a request the timer issues comes after
\* debounceMs without an input event, a request the search button issues
\* comes at once; an input event with fewer than 2 characters leaves no
\* timer pending and the suggestions hidden.
C28_InputDebounced ==
    /\ [](/\ Cardinality(timers) <= 1
          /\ \A t \in timers : t.id = searchTimeout /\ Len(t.q) >= 2
          /\ TrimmedQuery
          /\ lastSearch.issued /\ lastSearch.via = "timer" =>
                lastSearch.quiet >= debounceMs)
    /\ [][inputEvent =>
            /\ timers' \cap timers = {}
            /\ Len(Trim(inputValue')) < 2 =>
                  timers' = {} /\ suggestions'.hidden]_vars

\* A second timer was created and only one request was ever issued, by a
\* timer after the full delay: the first timer was cancelled.
C28_Witness ==
    /\ searchTimeout = 2
    /\ lastSearch.via = "timer"
    /\ lastSearch.quiet = debounceMs
    /\ inFlight = 1
    /\ suggestions.items = "none"

====
